---- MODULE Spec2Model ----
(***************************************************************************)
(* Cloud Document Converter: the Block Tree -> Markdown AST Transformer    *)
(* (packages/lark, class Transformer, reached through                      *)
(* Docx.intoMarkdownAST).  A document is a snapshot of blocks addressed by *)
(* id; transform walks it top-down, dispatches on the block type and       *)
(* returns { root, images, files }.  One call of transform is one atomic   *)
(* step: the traversal is synchronous and has no suspension points.        *)
(* The block lists and the ImageData interface follow the repository's     *)
(* CLAUDE.md; the dispatch rules follow sections 3, 4.3 and 7 of the       *)
(* specification, packages/lark itself not being among the source files.   *)
(***************************************************************************)
EXTENDS Integers, Sequences, FiniteSets, TLC

(* ---------------------------------------------------------------------- *)
(* Bounds of the model                                                     *)
(* ---------------------------------------------------------------------- *)
MaxBlocks == 4

MaxDim == 2

(* ---------------------------------------------------------------------- *)
(* Block model                                                             *)
(* ---------------------------------------------------------------------- *)
HeadingTypes ==
  {"HEADING1", "HEADING2", "HEADING3", "HEADING4", "HEADING5",
   "HEADING6", "HEADING7", "HEADING8", "HEADING9"}

ListTypes == {"BULLET", "ORDERED", "TODO"}

(* Supported only when the option of the same name is on. *)
ConditionalTypes == {"WHITEBOARD", "DIAGRAM", "FILE"}

(* The list with SHEET left out. *)
NotSupportedButSheet == {"BITABLE", "CHAT_CARD", "MINDNOTE", "FALLBACK"}

(* Never supported: the handling rule returns null. *)
NotSupportedTypes == {"BITABLE", "CHAT_CARD", "MINDNOTE", "SHEET", "FALLBACK"}

(* Degrading from level 8 on only. *)
DegradedFromEight == {"HEADING8", "HEADING9"}

(* Level 7-9 headings are converted to paragraphs. *)
DegradedHeadings == {"HEADING7", "HEADING8", "HEADING9"}

(* Flattening that forgets the columns. *)
GridOnly == {"GRID"}

(* Grid blocks can be flattened when flatGrid is on. *)
GridTypes == {"GRID", "GRID_COLUMN"}

(* The BlockType enum: every tag a block can carry. *)
BlockType ==
  {"PAGE", "DIVIDER", "HEADING1", "HEADING2", "HEADING3", "HEADING4",
   "HEADING5", "HEADING6", "HEADING7", "HEADING8", "HEADING9", "CODE",
   "QUOTE_CONTAINER", "BULLET", "ORDERED", "TODO", "TEXT", "TABLE",
   "TABLE_CELL", "GRID", "GRID_COLUMN", "IMAGE", "FILE", "WHITEBOARD",
   "DIAGRAM", "IFRAME", "ISV", "BITABLE", "CHAT_CARD", "MINDNOTE", "SHEET",
   "FALLBACK"}

HeadingLevel(t) ==
  CASE t = "HEADING1" -> 1 [] t = "HEADING2" -> 2 [] t = "HEADING3" -> 3
    [] t = "HEADING4" -> 4 [] t = "HEADING5" -> 5 [] t = "HEADING6" -> 6
    [] t = "HEADING7" -> 7 [] t = "HEADING8" -> 8 [] t = "HEADING9" -> 9
    [] OTHER -> 0

(* A flag that is never consulted. *)
FlagIgnored(c, t) == TRUE

(* Whether the option that gates tag t is on in configuration c. *)
FlagOn(c, t) ==
  CASE t = "WHITEBOARD" -> c.whiteboard
    [] t = "DIAGRAM" -> c.diagram
    [] t = "FILE" -> c.file
    [] OTHER -> TRUE

(* Configuration: the options of one conversion call.  The highlight       *)
(* option only styles inline runs, which are opaque here.                  *)
Configs ==
  [whiteboard : BOOLEAN, diagram : BOOLEAN, file : BOOLEAN, flatGrid : BOOLEAN]

(* ImageData / file data: metadata plus the deferred accessors.  An        *)
(* accessor is an opaque handle; invoking it is the caller's business.     *)
Accessor(k, b) == [kind |-> k, owner |-> b]

(* Accessors wrapped by the transformer instead of passed on. *)
ImageDataWrapped(b) ==
  [name |-> b, token |-> b,
   fetchSources |-> Accessor("resolvedSources", b),
   fetchBlob |-> Accessor("resolvedBlob", b)]

ImageData(b) ==
  [name |-> b, token |-> b,
   fetchSources |-> Accessor("fetchSources", b),
   fetchBlob |-> Accessor("fetchBlob", b)]

(* Inline content of a block: opaque runs identified by the owning block.  *)
Inline(b) == << [type |-> "text", value |-> b] >>


(* ---------------------------------------------------------------------- *)
(* Markdown AST nodes.  origin is a ghost field: the id of the block the   *)
(* node was built from, kept only so that properties can name it.          *)
(* ---------------------------------------------------------------------- *)
Parent(kind, b, kids) == [type |-> kind, origin |-> b, children |-> kids]

HeadingNode(t, b) ==
  IF t \in DegradedHeadings
    THEN Parent("paragraph", b, Inline(b))
    ELSE [type |-> "heading", origin |-> b, depth |-> HeadingLevel(t),
          children |-> Inline(b)]

ListNode(t, b) ==
  [type |-> "list", origin |-> b, ordered |-> (t = "ORDERED"),
   children |->
     << [type |-> "listItem", origin |-> b,
         checked |-> IF t = "TODO" THEN <<FALSE>> ELSE <<>>,
         children |-> << Parent("paragraph", b, Inline(b)) >>] >>]

ImageNode(b) == [type |-> "image", origin |-> b, data |-> ImageData(b)]

FileNode(b) ==
  [type |-> "link", origin |-> b,
   data |-> [name |-> b, token |-> b, fetchBlob |-> Accessor("fetchBlob", b)]]

(* The reference appended to the images / files side collection. *)
ImageRef(b) == [id |-> b] @@ ImageNode(b).data

FileRef(b) == [id |-> b] @@ FileNode(b).data

(* Leaf blocks build their node from static fields only. *)
LeafNode(t, b) ==
  CASE t \in HeadingTypes -> HeadingNode(t, b)
    [] t = "TEXT" -> Parent("paragraph", b, Inline(b))
    [] t \in ListTypes -> ListNode(t, b)
    [] t = "CODE" -> [type |-> "code", origin |-> b, lang |-> b, value |-> b]
    [] t = "DIVIDER" -> [type |-> "thematicBreak", origin |-> b]
    [] t = "IFRAME" -> [type |-> "link", origin |-> b, url |-> b]
    [] t = "ISV" -> Parent("paragraph", b, Inline(b))
    [] t = "WHITEBOARD" ->
         [type |-> "image", origin |-> b, data |-> [whiteboard |-> TRUE]]
    [] t = "DIAGRAM" -> [type |-> "code", origin |-> b, lang |-> "diagram", value |-> b]
    [] OTHER -> Parent("paragraph", b, Inline(b))

(* ---------------------------------------------------------------------- *)
(* Transformer                                                             *)
(* ---------------------------------------------------------------------- *)
(* Steps 2 and 3 of the dispatch: no node, children not visited. *)
IsUnsupported(t, c) ==
  \/ t \in NotSupportedTypes
  \/ t \notin BlockType
  \/ t \in ConditionalTypes /\ ~FlagOn(c, t)

Out(nodes, st) == [nodes |-> nodes, st |-> st]

(* rows x cols cells in row-major order become rows tableRow nodes. *)
(* Rows and columns swapped. *)
TableRowsTransposed(b, cells, rows, cols) ==
  [r \in 1..cols |->
     Parent("tableRow", b, SubSeq(cells, (r - 1) * rows + 1, r * rows))]

TableRows(b, cells, rows, cols) ==
  [r \in 1..rows |->
     Parent("tableRow", b, SubSeq(cells, (r - 1) * cols + 1, r * cols))]

AsCell(b, nodes) ==
  IF Len(nodes) = 1 /\ nodes[1].type = "tableCell"
    THEN nodes[1]
    ELSE Parent("tableCell", b, nodes)

(* Prepending instead of appending. *)
CollectFirst(coll, ref) == <<ref>> \o coll

(* Appending a reference to a side collection, in traversal order. *)
Collect(coll, ref) == Append(coll, ref)

RECURSIVE Walk(_, _, _, _)
RECURSIVE WalkKids(_, _, _, _)
RECURSIVE WalkCells(_, _, _, _, _)

(* Transformer._transform: one dispatch step per block.  st is the state   *)
(* of the running traversal: the side collections, the visited-id set of   *)
(* the cycle guard, and whether an InvariantViolation was raised.          *)
Walk(d, c, b, st) ==
  IF st.err THEN Out(<<>>, st)
  ELSE IF b \in st.seen THEN Out(<<>>, [st EXCEPT !.err = TRUE])
  ELSE
    LET t == d.type[b]
        s1 == [st EXCEPT !.seen = @ \cup {b}]
    IN
    CASE IsUnsupported(t, c) -> Out(<<>>, s1)
      [] t \in GridTypes ->
           LET k == WalkKids(d, c, d.children[b], s1) IN
           IF c.flatGrid THEN k
           ELSE IF t = "GRID"
             THEN Out(<< Parent("table", b,
                           << Parent("tableRow", b, k.nodes) >>) >>, k.st)
             ELSE Out(<< Parent("tableCell", b, k.nodes) >>, k.st)
      [] t = "TABLE" ->
           LET k == WalkCells(d, c, b, 1, s1) IN
           Out(<< Parent("table", b,
                    TableRows(b, k.nodes, d.rows[b], d.cols[b])) >>, k.st)
      [] t \in {"PAGE", "QUOTE_CONTAINER", "TABLE_CELL"} ->
           LET k == WalkKids(d, c, d.children[b], s1)
               kind == CASE t = "PAGE" -> "root"
                         [] t = "QUOTE_CONTAINER" -> "blockquote"
                         [] OTHER -> "tableCell"
           IN Out(<< Parent(kind, b, k.nodes) >>, k.st)
      [] t = "IMAGE" ->
           Out(<< ImageNode(b) >>,
               [s1 EXCEPT !.images = Collect(@, ImageRef(b))])
      [] t = "FILE" ->
           Out(<< FileNode(b) >>,
               [s1 EXCEPT !.files = Collect(@, FileRef(b))])
      [] OTHER -> Out(<< LeafNode(t, b) >>, s1)

(* Children in order; only the non-null results are appended. *)
WalkKids(d, c, kids, st) ==
  IF kids = <<>> THEN Out(<<>>, st)
  ELSE LET h == Walk(d, c, Head(kids), st)
           r == WalkKids(d, c, Tail(kids), h.st)
       IN Out(h.nodes \o r.nodes, r.st)

(* Cells i .. rows*cols of table b: the i-th supplied cell, or an empty    *)
(* cell where the cell list is too short.                                  *)
WalkCells(d, c, b, i, st) ==
  IF i > d.rows[b] * d.cols[b] THEN Out(<<>>, st)
  ELSE LET h == IF i <= Len(d.children[b])
                  THEN Walk(d, c, d.children[b][i], st)
                  ELSE Out(<<>>, st)
           r == WalkCells(d, c, b, i + 1, h.st)
       IN Out(<< AsCell(b, h.nodes) >> \o r.nodes, r.st)

(* A Transformer that keeps the collections of the previous call. *)
StaleTransformer(imgs, fls) ==
  [images |-> imgs, files |-> fls, seen |-> {}, err |-> FALSE]

(* A new Transformer per call: empty side collections, empty guard set. *)
NewTransformer(imgs, fls) ==
  [images |-> <<>>, files |-> <<>>, seen |-> {}, err |-> FALSE]

(* The violation swallowed: a truncated result handed back as a success. *)
FailureSwallowed(st) ==
  [outcome |-> "ok", root |-> << Parent("root", 1, <<>>) >>, images |-> st.images,
   files |-> st.files, seen |-> st.seen]

(* InvariantViolation: the caller gets the failure and no AST. *)
Failure(st) ==
  [outcome |-> "InvariantViolation", root |-> <<>>, images |-> <<>>,
   files |-> <<>>, seen |-> st.seen]

(* A transform that takes a PAGE without children for malformed input. *)
transformRejectEmpty(d, c, imgs, fls) ==
  LET st0 == NewTransformer(imgs, fls) IN
  IF d.type[1] # "PAGE" \/ d.children[1] = <<>> THEN Failure(st0)
  ELSE LET w == Walk(d, c, 1, st0) IN
       IF w.st.err THEN Failure(w.st)
       ELSE [outcome |-> "ok", root |-> w.nodes, images |-> w.st.images,
             files |-> w.st.files, seen |-> w.st.seen]

(* transform(rootBlock, config) -> { root, images, files }.  imgs and fls  *)
(* are the collections left behind by the previous call.                   *)
transform(d, c, imgs, fls) ==
  LET st0 == NewTransformer(imgs, fls) IN
  IF d.type[1] # "PAGE" THEN Failure(st0)
  ELSE LET w == Walk(d, c, 1, st0) IN
       IF w.st.err THEN Failure(w.st)
       ELSE [outcome |-> "ok", root |-> w.nodes, images |-> w.st.images,
             files |-> w.st.files, seen |-> w.st.seen]


(* ---------------------------------------------------------------------- *)
(* Documents the model is run on                                           *)
(* ---------------------------------------------------------------------- *)
Doc(n, type, children, rows, cols) ==
  [n |-> n, type |-> type, children |-> children, rows |-> rows, cols |-> cols]

NoDims(n) == [i \in 1..n |-> 0]

Ids(n) == [i \in 1..n |-> i]

(* The children of block i under the parent function p, in id order. *)
KidsOf(p, n, i) == SelectSeq(Ids(n), LAMBDA j : j > 1 /\ p[j] = i)

(* Types that may own children in a snapshot: containers, and the          *)
(* unsupported tags whose subtree the traversal must skip.                 *)
MayOwnChildren(t) ==
  t \in {"PAGE", "QUOTE_CONTAINER", "GRID", "GRID_COLUMN", "BITABLE",
         "CHAT_CARD", "MINDNOTE", "SHEET", "FALLBACK"}

TreePalette == {"TEXT", "IMAGE", "QUOTE_CONTAINER", "GRID", "SHEET"}

TreeDocsOf(n, rootType) ==
  { Doc(n, [i \in 1..n |-> IF i = 1 THEN rootType ELSE ty[i]],
        [i \in 1..n |-> KidsOf(p, n, i)], NoDims(n), NoDims(n)) :
      <<p, ty>> \in
        { pt \in [2..n -> 1..n] \X [2..n -> TreePalette] :
            \A i \in 2..n :
              /\ pt[1][i] < i
              /\ pt[1][i] = 1 \/ MayOwnChildren(pt[2][pt[1][i]]) } }

TreeDocs == UNION { TreeDocsOf(n, "PAGE") : n \in 1..MaxBlocks }

(* The root of a snapshot must be a PAGE; these are not. *)
BadRootDocs == UNION { TreeDocsOf(2, t) : t \in {"TEXT", "QUOTE_CONTAINER", "SHEET"} }

(* A tree plus one more child reference a -> b: a self reference, a longer *)
(* cycle, or a block referenced twice.                                     *)
AddEdge(d, a, b) == [d EXCEPT !.children[a] = Append(@, b)]

CyclicDocs ==
  { AddEdge(d, a, b) :
      <<d, a, b>> \in
        { dab \in (UNION { TreeDocsOf(n, "PAGE") : n \in 1..(MaxBlocks - 1) })
                     \X (1..MaxBlocks) \X (1..MaxBlocks) :
            /\ dab[2] <= dab[1].n
            /\ dab[3] <= dab[1].n
            /\ MayOwnChildren(dab[1].type[dab[2]]) } }

(* One block of every type between siblings, with a child of its own where *)
(* the type may own children.                                              *)
FocusDoc(t) ==
  Doc(6, <<"PAGE", "IMAGE", t, "IMAGE", "FILE", "IMAGE">>,
      << <<6, 3, 5, 2>>, <<>>, IF MayOwnChildren(t) THEN <<4>> ELSE <<>>,
         <<>>, <<>>, <<>> >>,
      NoDims(6), NoDims(6))

FocusDocs == { FocusDoc(t) : t \in BlockType \ {"PAGE", "TABLE", "TABLE_CELL"} }

(* Grids nested in grid columns, between two siblings. *)
NestedGridDoc ==
  Doc(11,
      <<"PAGE", "TEXT", "GRID", "GRID_COLUMN", "IMAGE", "GRID", "GRID_COLUMN",
        "FILE", "GRID_COLUMN", "FILE", "FILE">>,
      << <<11, 3, 2>>, <<>>, <<4, 9>>, <<5, 6>>, <<>>, <<7>>, <<8>>, <<>>,
         <<10>>, <<>>, <<>> >>,
      NoDims(11), NoDims(11))

(* PAGE -> TABLE declaring rows x cols with k supplied cells.  Every cell  *)
(* holds one TEXT block, except cell m (if any), which holds an IMAGE and  *)
(* lies inside the declared shape.                                         *)
TableDoc(rows, cols, k, m) ==
  LET n == 2 + 2 * k IN
  Doc(n,
      [i \in 1..n |->
         CASE i = 1 -> "PAGE" [] i = 2 -> "TABLE"
           [] i <= 2 + k -> "TABLE_CELL"
           [] i = 2 + k + m -> "IMAGE"
           [] OTHER -> "TEXT"],
      [i \in 1..n |->
         CASE i = 1 -> <<2>>
           [] i = 2 -> [j \in 1..k |-> 2 + j]
           [] i <= 2 + k -> <<i + k>>
           [] OTHER -> <<>>],
      [i \in 1..n |-> IF i = 2 THEN rows ELSE 0],
      [i \in 1..n |-> IF i = 2 THEN cols ELSE 0])

TableDocs ==
  { TableDoc(q[1], q[2], q[3], q[4]) :
      q \in { x \in (0..MaxDim) \X (0..MaxDim) \X (0..(MaxDim * MaxDim + 1))
                      \X (0..(MaxDim * MaxDim)) :
                x[4] <= x[3] /\ x[4] <= x[1] * x[2] } }

Docs == TreeDocs \cup BadRootDocs \cup CyclicDocs \cup FocusDocs
          \cup {NestedGridDoc} \cup TableDocs

HasType(d, t) == \E i \in 1..d.n : d.type[i] = t

(* A flag is only switched on for a document that holds a block it gates. *)
ConfigsFor(d) ==
  { c \in Configs :
      /\ c.whiteboard => HasType(d, "WHITEBOARD")
      /\ c.diagram => HasType(d, "DIAGRAM")
      /\ c.file => HasType(d, "FILE")
      /\ c.flatGrid => HasType(d, "GRID") }

(* The document of the interleaved calls: the example of the specification *)
(* (heading, text, image) with an attachment, every option on.             *)
OtherDoc ==
  Doc(5, <<"PAGE", "HEADING1", "TEXT", "IMAGE", "FILE">>,
      << <<2, 3, 4, 5>>, <<>>, <<>>, <<>>, <<>> >>, NoDims(5), NoDims(5))

OtherConfig ==
  [whiteboard |-> TRUE, diagram |-> TRUE, file |-> TRUE, flatGrid |-> TRUE]

(* ---------------------------------------------------------------------- *)
(* State                                                                   *)
(* ---------------------------------------------------------------------- *)
VARIABLES
  doc,      \* the block tree snapshot under conversion
  cfg,      \* its Configuration
  last,     \* which document the last transform call ran on
  outcome,  \* "none", "ok" or "InvariantViolation"
  root,     \* the returned root node (a sequence of at most one node)
  images,   \* the images side collection of the Transformer
  files,    \* the files side collection of the Transformer
  seen,     \* the visited-id set of the last traversal
  first,    \* what the first transform(doc, cfg) returned
  between,  \* another document was converted since that first call
  invoked   \* deferred accessors invoked so far, by anyone

tvars ==
  <<doc, cfg, last, outcome, root, images, files, seen, first, between, invoked>>

(* BatchManager (common/message.ts): its fields, the position of the one   *)
(* start() call in flight, and a record of the calls it has made.          *)
VARIABLES
  jobs,            \* DownloadJob[]: status, attempt, error of each job
  maxRetries,      \* options.maxRetries
  isPaused,
  isStopped,
  completedCount,
  currentJobId,    \* 0 stands for null
  bpc,             \* where start() stands: an await point or a step between
  cur,             \* position of the for..of loop of start()
  starts,          \* number of start() calls so far
  executorCalls,   \* per job: invocations of the executor begun
  executorOk,      \* per job: invocations of the executor that resolved
  failedCalls,     \* per job: onJobFailed calls
  lastError,       \* per job: message of the last rejection
  progress,        \* the last onProgress call, with the statuses at that moment
  inflight,        \* the job whose invocation was in flight at the last stop()
  resumedJob       \* the job that was waiting in the pause poll at the last resume()

bvars ==
  <<jobs, maxRetries, isPaused, isStopped, completedCount, currentJobId, bpc,
    cur, starts, executorCalls, executorOk, failedCalls, lastError, progress,
    inflight, resumedJob>>

(* downloadDocument (common/tab-automation.ts): one call, the browser it    *)
(* talks to, and a record of what it called.                               *)
VARIABLES
  dpc,            \* the await downloadDocument stands at
  tab,            \* "null", "noid" (a tab without id) or "id"
  returned,       \* what the try or the catch block returned, <<>> before
  result,         \* how the promise settled, <<>> while pending
  removeCalls,    \* chrome.tabs.remove calls for the tab
  timeoutCalls,   \* calls of onPageLoadTimeout and of onDownloadTimeout
  earlier,        \* a download that completed before the injection exists
  ownDownload,    \* the download started by the injected script
  search,         \* the chrome.downloads.search check of the download wait
  pageEnd,        \* what ended the page-load wait
  downloadEnd,    \* what ended the download wait
  failedStep,     \* the step that failed, "none" if none did
  removeFailed    \* chrome.tabs.remove rejected

dvars ==
  <<dpc, tab, returned, result, removeCalls, timeoutCalls, earlier,
    ownDownload, search, pageEnd, downloadEnd, failedStep, removeFailed>>

(* startBatchDownload (pages/automation/automation-logic.ts): its options, *)
(* the loop over the input URLs and what it has collected and logged.      *)
VARIABLES
  urls,             \* options.urls
  recursiveWiki,
  includeMainPage,
  idx,              \* position of the for..of loop over urls
  cpc,              \* "loop", "discovering" (the await), "batch" or "empty"
  allUrls,          \* the Set of URLs to download, in insertion order
  clog,             \* onLog calls: level, message, position of the input
  rejectedAt,       \* positions of the inputs whose discovery rejected
  managerUrls,      \* the urls handed to new BatchManager, <<>> before
  discovered        \* the input and the list of the last resolved discovery

cvars ==
  <<urls, recursiveWiki, includeMainPage, idx, cpc, allUrls, clog, rejectedAt,
    managerUrls, discovered>>

(* discoverWikiRecursively (common/wiki-detector.ts): one top-level call   *)
(* and the wiki it walks.                                                  *)
VARIABLES
  wurl,        \* the url argument of the top-level call
  wmaxDepth,   \* options.maxDepth of startBatchDownload, -1 for unlimited
  links,       \* per page: the sub-page links its discovery script returns
  wpc,         \* "idle", "called", "resolved" or "rejected"
  wresult      \* the list the call resolved with

wvars == <<wurl, wmaxDepth, links, wpc, wresult>>

vars == <<tvars, bvars, dvars, cvars, wvars>>

(* The pages of the wiki, by their href without fragment. *)
Pages == {"wiki/A", "wiki/A1", "wiki/A2"}

(* No discovery has been called. *)
DiscoverIdle ==
  /\ wurl = "wiki/A"
  /\ wmaxDepth = -1
  /\ links = [p \in Pages |-> <<>>]
  /\ wpc = "idle"
  /\ wresult = <<>>

(* startBatchDownload({urls: us, recursiveWiki: rw, includeMainPage: inc}) *)
(* is entered: allUrls = new Set().                                        *)
CollectEntered(us, rw, inc) ==
  /\ urls = us
  /\ recursiveWiki = rw
  /\ includeMainPage = inc
  /\ idx = 1
  /\ cpc = "loop"
  /\ allUrls = <<>>
  /\ clog = {}
  /\ rejectedAt = {}
  /\ managerUrls = <<>>
  /\ discovered = <<>>

(* No downloadDocument call has been made. *)
DownloadIdle(e) ==
  /\ dpc = "idle"
  /\ tab = "null"
  /\ returned = <<>>
  /\ result = <<>>
  /\ removeCalls = 0
  /\ timeoutCalls = [page |-> 0, download |-> 0]
  /\ earlier = e
  /\ ownDownload = "none"
  /\ search = "none"
  /\ pageEnd = "none"
  /\ downloadEnd = "none"
  /\ failedStep = "none"
  /\ removeFailed = FALSE

(* Bounds of the batch model. *)
NumJobs == 2
MaxRetriesBound == 2
MaxStarts == 2

JobIds == 1..NumJobs

(* new BatchManager({urls, maxRetries: mr, ...}): every job pending with   *)
(* attempt 0, the flags down, nothing called yet.                          *)
BatchConstructed(mr) ==
  /\ jobs = [j \in JobIds |-> [status |-> "pending", attempt |-> 0,
                                error |-> "none"]]
  /\ maxRetries = mr
  /\ isPaused = FALSE
  /\ isStopped = FALSE
  /\ completedCount = 0
  /\ currentJobId = 0
  /\ bpc = "idle"
  /\ cur = 0
  /\ starts = 0
  /\ executorCalls = [j \in JobIds |-> 0]
  /\ executorOk = [j \in JobIds |-> 0]
  /\ failedCalls = [j \in JobIds |-> 0]
  /\ lastError = [j \in JobIds |-> "none"]
  /\ progress = <<>>
  /\ inflight = 0
  /\ resumedJob = 0

(* The accessors transform itself invokes while walking d: none. *)
InvokedByWalk(d, c) == {}

Handles(imgs, fls) ==
  { imgs[i].fetchSources : i \in 1..Len(imgs) }
    \cup { imgs[i].fetchBlob : i \in 1..Len(imgs) }
    \cup { fls[i].fetchBlob : i \in 1..Len(fls) }

Init ==
  /\ doc \in Docs
  /\ cfg \in ConfigsFor(doc)
  /\ last = "none"
  /\ outcome = "none"
  /\ root = <<>>
  /\ images = <<>>
  /\ files = <<>>
  /\ seen = {}
  /\ first = <<>>
  /\ between = FALSE
  /\ invoked = {}
  /\ BatchConstructed(MaxRetriesBound)
  /\ DownloadIdle(FALSE)
  /\ CollectEntered(<<>>, FALSE, FALSE)
  /\ DiscoverIdle

Call(d, c) ==
  LET r == transform(d, c, images, files) IN
  /\ outcome' = r.outcome
  /\ root' = r.root
  /\ images' = r.images
  /\ files' = r.files
  /\ seen' = r.seen
  /\ invoked' = invoked \cup InvokedByWalk(d, c)

(* docx.intoMarkdownAST(cfg) on the document. *)
Transform ==
  /\ Call(doc, cfg)
  /\ last' = "doc"
  /\ first' = IF first = <<>>
                THEN << [outcome |-> outcome', root |-> root',
                         images |-> images', files |-> files'] >>
                ELSE first
  /\ UNCHANGED <<doc, cfg, between>>
  /\ UNCHANGED <<bvars, dvars, cvars, wvars>>

(* A conversion of another document in between. *)
TransformOther ==
  /\ Call(OtherDoc, OtherConfig)
  /\ last' = "other"
  /\ between' = (first # <<>>)
  /\ UNCHANGED <<doc, cfg, first>>
  /\ UNCHANGED <<bvars, dvars, cvars, wvars>>

(* The caller resolves the assets of the document's result it holds. *)
ResolveAssets ==
  /\ last = "doc"
  /\ outcome = "ok"
  /\ Handles(images, files) # {}
  /\ invoked' = invoked \cup Handles(images, files)
  /\ UNCHANGED <<doc, cfg, last, outcome, root, images, files, seen, first,
                 between>>
  /\ UNCHANGED <<bvars, dvars, cvars, wvars>>

Next == Transform \/ TransformOther \/ ResolveAssets

Spec == Init /\ [][Next]_vars


(* ---------------------------------------------------------------------- *)
(* Vocabulary of the properties                                            *)
(* ---------------------------------------------------------------------- *)
(* The document and options of the call whose result the state holds. *)
CurDoc == IF last = "other" THEN OtherDoc ELSE doc

CurCfg == IF last = "other" THEN OtherConfig ELSE cfg

Returned == last # "none" /\ outcome = "ok"

(* What a call returns to its caller. *)
ResultOf(d, c) ==
  LET r == transform(d, c, <<>>, <<>>) IN
  [outcome |-> r.outcome, root |-> r.root, images |-> r.images, files |-> r.files]

Held == [outcome |-> outcome, root |-> root, images |-> images, files |-> files]

RECURSIVE NodesIn(_)
(* Every node of a sequence of AST nodes, at any depth. *)
NodesIn(nodes) ==
  UNION { {nodes[i]} \cup
            (IF "children" \in DOMAIN nodes[i]
               THEN NodesIn(nodes[i].children) ELSE {}) :
          i \in 1..Len(nodes) }

(* Nodes built from a block (inline text runs carry no origin). *)
BlockNodes == { nd \in NodesIn(root) : "origin" \in DOMAIN nd }

NodesOf(b) == { nd \in BlockNodes : nd.origin = b }

Range(f) == { f[i] : i \in DOMAIN f }

IdsOf(coll) == [i \in 1..Len(coll) |-> coll[i].id]

UnsupportedTags == {"BITABLE", "CHAT_CARD", "MINDNOTE", "SHEET", "FALLBACK"}

GridTags == {"GRID", "GRID_COLUMN"}

(* The blocks a call with options c prunes: the unsupported tags and the   *)
(* conditionally supported ones whose flag is off.                         *)
PrunedBy(d, c) ==
  { b \in 1..d.n :
      \/ d.type[b] \in UnsupportedTags
      \/ d.type[b] = "WHITEBOARD" /\ ~c.whiteboard
      \/ d.type[b] = "DIAGRAM" /\ ~c.diagram
      \/ d.type[b] = "FILE" /\ ~c.file }

Tagged(d) == { b \in 1..d.n : d.type[b] \in UnsupportedTags }

(* Child references leaving the set R, not followed out of blocks in skip. *)
KidsFrom(d, skip, R) == UNION { Range(d.children[b]) : b \in R \ skip }

RECURSIVE Closure(_, _, _)
Closure(d, skip, R) ==
  LET more == R \cup KidsFrom(d, skip, R) IN
  IF more = R THEN R ELSE Closure(d, skip, more)

(* Blocks reachable from the root without passing through a block of skip. *)
Live(d, skip) == Closure(d, skip, {1})

(* b reaches itself through child ids, not passing through skip. *)
OnCycle(d, skip, b) == b \in Closure(d, skip, KidsFrom(d, skip, {b}))

(* ---------------------------------------------------------------------- *)
(* C1: a block tagged BITABLE, CHAT_CARD, MINDNOTE, SHEET or FALLBACK      *)
(* yields no node, nothing below it is visited or emitted, and the result  *)
(* is the one of the document with those blocks taken out of every child   *)
(* sequence: the remaining siblings keep their order.                      *)
(* ---------------------------------------------------------------------- *)
DropTagged(d) ==
  [d EXCEPT !.children =
     [i \in 1..d.n |->
        SelectSeq(d.children[i], LAMBDA k : d.type[k] \notin UnsupportedTags)]]

C1_UnsupportedOmitted ==
  Returned =>
    LET d == CurDoc
        kept == Live(d, Tagged(d)) \ Tagged(d)
    IN /\ \A nd \in BlockNodes : nd.origin \in kept
       /\ seen \subseteq Live(d, Tagged(d))
       /\ Range(IdsOf(images)) \cup Range(IdsOf(files)) \subseteq kept
       /\ Held = ResultOf(DropTagged(d), CurCfg)

C1_Witness ==
  /\ last = "doc"
  /\ outcome = "ok"
  /\ \E p \in seen : \E i \in 2..(Len(doc.children[p]) - 1) :
       LET b == doc.children[p][i] IN
       /\ doc.type[b] \in UnsupportedTags
       /\ \E k \in Range(doc.children[b]) : doc.type[k] = "IMAGE"
       /\ p \notin Tagged(doc)
  /\ Len(root[1].children) >= 2

(* ---------------------------------------------------------------------- *)
(* C2: a heading block of level 1..6 yields a heading node of that depth,  *)
(* one of level 7..9 a paragraph with the same inline content; no heading  *)
(* node has a depth outside 1..6.                                          *)
(* ---------------------------------------------------------------------- *)
C2_HeadingClamp ==
  Returned =>
    /\ \A b \in seen :
         CurDoc.type[b] \in HeadingTypes =>
           LET L == HeadingLevel(CurDoc.type[b]) IN
           NodesOf(b) =
             { IF L <= 6
                 THEN [type |-> "heading", origin |-> b, depth |-> L,
                       children |-> Inline(b)]
                 ELSE [type |-> "paragraph", origin |-> b,
                       children |-> Inline(b)] }
    /\ \A nd \in BlockNodes : nd.type = "heading" => nd.depth \in 1..6

C2_Witness ==
  /\ last = "doc"
  /\ outcome = "ok"
  /\ \E b \in seen : doc.type[b] = "HEADING7" /\ NodesOf(b) # {}

(* ---------------------------------------------------------------------- *)
(* C3: images (files) holds one entry per IMAGE (FILE) block that is       *)
(* reachable after pruning, in document order, none twice.                 *)
(* ---------------------------------------------------------------------- *)
RECURSIVE DocOrder(_, _, _)
(* The blocks below the child sequence kids that survive pruning, in       *)
(* document (pre-order) order.                                             *)
DocOrder(d, skip, kids) ==
  IF kids = <<>> THEN <<>>
  ELSE LET b == Head(kids) IN
       (IF b \in skip THEN <<>> ELSE <<b>> \o DocOrder(d, skip, d.children[b]))
         \o DocOrder(d, skip, Tail(kids))

NoRepeats(q) == \A i, j \in 1..Len(q) : q[i] = q[j] => i = j

RECURSIVE SpliceSeq(_, _)
SpliceSeq(d, kids) ==
  IF kids = <<>> THEN <<>>
  ELSE (IF d.type[Head(kids)] \in GridTags
          THEN SpliceSeq(d, d.children[Head(kids)])
          ELSE << Head(kids) >>)
         \o SpliceSeq(d, Tail(kids))

SpliceGrids(d, c) ==
  [d EXCEPT !.children =
     [i \in 1..d.n |->
        IF i \in Live(d, PrunedBy(d, c)) \ PrunedBy(d, c)
          THEN SpliceSeq(d, d.children[i])
          ELSE d.children[i]]]

C5_GridFlatten ==
  (Returned /\ CurCfg.flatGrid) =>
    /\ \A nd \in BlockNodes : CurDoc.type[nd.origin] \notin GridTags
    /\ Held = ResultOf(SpliceGrids(CurDoc, CurCfg), CurCfg)

C5_Witness ==
  /\ last = "doc"
  /\ outcome = "ok"
  /\ cfg.flatGrid
  /\ \E g \in seen : \E h \in Range(doc.children[g]) :
       \E k \in Range(doc.children[h]) : \E m \in Range(doc.children[k]) :
         /\ doc.type[g] = "GRID" /\ doc.type[h] = "GRID_COLUMN"
         /\ doc.type[k] = "GRID" /\ doc.type[m] = "GRID_COLUMN"
         /\ doc.children[m] # <<>>
  /\ Len(root[1].children) > Len(doc.children[1])


(* ---------------------------------------------------------------------- *)
(* C6: a WHITEBOARD, DIAGRAM or FILE block whose flag is off yields no     *)
(* node and no files entry, and the result is the one of the document in   *)
(* which that block carries an unsupported tag instead.                    *)
(* ---------------------------------------------------------------------- *)
SwitchedOff(d, c) ==
  { b \in 1..d.n :
      \/ d.type[b] = "WHITEBOARD" /\ ~c.whiteboard
      \/ d.type[b] = "DIAGRAM" /\ ~c.diagram
      \/ d.type[b] = "FILE" /\ ~c.file }

Retagged(d, blocks, t) ==
  [d EXCEPT !.type = [i \in 1..d.n |-> IF i \in blocks THEN t ELSE d.type[i]]]

C6_FlagOffIsUnsupported ==
  Returned =>
    LET off == SwitchedOff(CurDoc, CurCfg) IN
    /\ \A b \in off : NodesOf(b) = {}
    /\ \A b \in off : b \notin Range(IdsOf(files)) \cup Range(IdsOf(images))
    /\ Held = ResultOf(Retagged(CurDoc, off, "SHEET"), CurCfg)

C6_Witness ==
  /\ last = "doc"
  /\ outcome = "ok"
  /\ ~cfg.file
  /\ \E b \in seen : doc.type[b] = "FILE"
  /\ \E b \in seen : doc.type[b] = "WHITEBOARD" /\ ~cfg.whiteboard
  /\ images # <<>>

(* ---------------------------------------------------------------------- *)
(* C7: a step that invokes a deferred accessor is never a transform call,  *)
(* and every image / file node and every side-collection entry carries the *)
(* accessors of its source block unmodified.                               *)
(* ---------------------------------------------------------------------- *)
AccessorsPassedThrough ==
  Returned =>
    /\ \A nd \in BlockNodes :
         CurDoc.type[nd.origin] = "IMAGE" =>
           /\ nd.data.fetchSources = Accessor("fetchSources", nd.origin)
           /\ nd.data.fetchBlob = Accessor("fetchBlob", nd.origin)
    /\ \A nd \in BlockNodes :
         CurDoc.type[nd.origin] = "FILE" =>
           nd.data.fetchBlob = Accessor("fetchBlob", nd.origin)
    /\ \A i \in 1..Len(images) :
         /\ images[i].fetchSources = Accessor("fetchSources", images[i].id)
         /\ images[i].fetchBlob = Accessor("fetchBlob", images[i].id)
    /\ \A i \in 1..Len(files) :
         files[i].fetchBlob = Accessor("fetchBlob", files[i].id)

C9_TableShape ==
  (last = "doc" /\ HasType(doc, "TABLE")) =>
    /\ outcome = "ok"
    /\ \A b \in 1..doc.n :
         doc.type[b] = "TABLE" =>
           /\ Cardinality(NodesOf(b) \cap { nd \in BlockNodes : nd.type = "table" }) = 1
           /\ \A tn \in { nd \in NodesOf(b) : nd.type = "table" } :
                /\ Len(tn.children) = doc.rows[b]
                /\ \A r \in 1..Len(tn.children) :
                     /\ tn.children[r].type = "tableRow"
                     /\ Len(tn.children[r].children) = doc.cols[b]
                     /\ \A k \in 1..Len(tn.children[r].children) :
                          LET cell == tn.children[r].children[k]
                              i == (r - 1) * doc.cols[b] + k
                          IN /\ cell.type = "tableCell"
                             /\ i > Len(doc.children[b]) => cell.children = <<>>
                             /\ i <= Len(doc.children[b]) =>
                                  /\ cell.origin = doc.children[b][i]
                                  /\ Len(cell.children) = 1

C9_Witness ==
  /\ last = "doc"
  /\ outcome = "ok"
  /\ doc.n >= 2
  /\ doc.type[2] = "TABLE"
  /\ doc.rows[2] = 2
  /\ doc.cols[2] = 2
  /\ Len(doc.children[2]) = 3
  /\ Len(root[1].children[1].children) = 2
  /\ root[1].children[1].children[2].children[2].children = <<>>

(* ---------------------------------------------------------------------- *)
(* C10: a PAGE block with no children yields a root node with no children, *)
(* empty images and files, and no error.                                   *)
(* ---------------------------------------------------------------------- *)
C10_EmptyPage ==
  (last = "doc" /\ doc.type[1] = "PAGE" /\ doc.children[1] = <<>>) =>
    /\ outcome = "ok"
    /\ Len(root) = 1
    /\ root[1].type = "root"
    /\ root[1].children = <<>>
    /\ images = <<>>
    /\ files = <<>>

C10_Witness ==
  /\ last = "doc"
  /\ between
  /\ doc.type[1] = "PAGE"
  /\ doc.children[1] = <<>>
  /\ outcome = "ok"
  /\ root[1].children = <<>>

(* ---------------------------------------------------------------------- *)
(* BatchManager (common/message.ts)                                        *)
(* ---------------------------------------------------------------------- *)
(* start() runs between the user's clicks only where it awaits: the pause  *)
(* poll, the executor, the retry delay and the delay between two jobs.     *)
(* "loop", "entry" and "after" are positions start() passes without        *)
(* yielding; pause(), resume() and stop() cannot fall there.               *)
AwaitPoints == {"paused", "executing", "retrydelay", "interdelay"}

Errors == {"E1", "E2"}

(* No conversion is under way while the batch runs. *)
TransformerIdle ==
  /\ doc = OtherDoc
  /\ cfg = OtherConfig
  /\ last = "none"
  /\ outcome = "none"
  /\ root = <<>>
  /\ images = <<>>
  /\ files = <<>>
  /\ seen = {}
  /\ first = <<>>
  /\ between = FALSE
  /\ invoked = {}

(* for (const job of this.jobs): the k-th job the loop visits. *)
IterationReversed(k) == NumJobs + 1 - k
Iteration(k) == k

(* processJob's guards: if (this.isStopped) return, while (this.isPaused). *)
StopIgnored == FALSE
StoppedAtEntry == isStopped

PauseIgnored == FALSE
PausedAtEntry == isPaused

(* catch: if (job.attempt < this.options.maxRetries) *)
MayRetryInclusive(j) == jobs[j].attempt <= maxRetries
MayRetry(j) == jobs[j].attempt < maxRetries

(* this.options.onProgress(this.completedCount, this.jobs.length) *)
OnProgress(count, js) ==
  << [completed |-> count, total |-> NumJobs,
      statusCompleted |->
        Cardinality({ j \in JobIds : js[j].status = "completed" })] >>

(* job.status = 'downloading'; job.attempt++; currentJobId = job.id;       *)
(* onJobStart(job); executor(job) begins.                                  *)
Invoke(j) ==
  /\ jobs' = [jobs EXCEPT ![j].status = "downloading", ![j].attempt = @ + 1]
  /\ currentJobId' = j
  /\ executorCalls' = [executorCalls EXCEPT ![j] = @ + 1]
  /\ bpc' = "executing"

(* start(executor), called while no start() is in flight: the caller       *)
(* awaits it.                                                              *)
Start ==
  /\ bpc \in {"idle", "done"}
  /\ starts < MaxStarts
  /\ starts' = starts + 1
  /\ isStopped' = FALSE
  /\ isPaused' = FALSE
  /\ completedCount' = 0
  /\ cur' = 1
  /\ bpc' = "loop"
  /\ UNCHANGED <<jobs, maxRetries, currentJobId, executorCalls, executorOk,
                 failedCalls, lastError, progress, inflight, resumedJob>>
  /\ UNCHANGED <<tvars, dvars, cvars, wvars>>

(* Head of the for loop: leave when the jobs are exhausted or after stop,  *)
(* skip a completed job, else call processJob.                             *)
LoopHead ==
  /\ bpc = "loop"
  /\ IF cur > NumJobs \/ isStopped
       THEN bpc' = "done" /\ cur' = cur
       ELSE IF jobs[Iteration(cur)].status = "completed"
         THEN bpc' = "loop" /\ cur' = cur + 1
         ELSE bpc' = "entry" /\ cur' = cur
  /\ UNCHANGED <<jobs, maxRetries, isPaused, isStopped, completedCount,
                 currentJobId, starts, executorCalls, executorOk, failedCalls,
                 lastError, progress, inflight, resumedJob>>
  /\ UNCHANGED <<tvars, dvars, cvars, wvars>>

(* Entry of processJob, for a first attempt or a retry. An early return    *)
(* of a retry unwinds through the finally of the attempt that called it;   *)
(* at a first attempt currentJobId is null already.                        *)
Entry ==
  /\ bpc = "entry"
  /\ IF StoppedAtEntry
       THEN /\ bpc' = "after"
            /\ currentJobId' = 0
            /\ UNCHANGED <<jobs, executorCalls>>
       ELSE IF PausedAtEntry
         THEN /\ bpc' = "paused"
              /\ UNCHANGED <<jobs, currentJobId, executorCalls>>
         ELSE Invoke(Iteration(cur))
  /\ UNCHANGED <<maxRetries, isPaused, isStopped, completedCount, cur, starts,
                 executorOk, failedCalls, lastError, progress, inflight, resumedJob>>
  /\ UNCHANGED <<tvars, dvars, cvars, wvars>>

(* delay(100) of the pause poll elapses with the pause lifted. *)
PausePoll ==
  /\ bpc = "paused"
  /\ ~isPaused
  /\ IF isStopped
       THEN /\ bpc' = "after"
            /\ currentJobId' = 0
            /\ UNCHANGED <<jobs, executorCalls>>
       ELSE Invoke(Iteration(cur))
  /\ UNCHANGED <<maxRetries, isPaused, isStopped, completedCount, cur, starts,
                 executorOk, failedCalls, lastError, progress, inflight, resumedJob>>
  /\ UNCHANGED <<tvars, dvars, cvars, wvars>>

(* The executor's promise resolves. *)
ExecutorResolves ==
  /\ bpc = "executing"
  /\ LET j == Iteration(cur) IN
     /\ jobs' = [jobs EXCEPT ![j].status = "completed"]
     /\ completedCount' = completedCount + 1
     /\ executorOk' = [executorOk EXCEPT ![j] = @ + 1]
     /\ progress' = OnProgress(completedCount', jobs')
  /\ currentJobId' = 0
  /\ bpc' = "after"
  /\ UNCHANGED <<maxRetries, isPaused, isStopped, cur, starts, executorCalls,
                 failedCalls, lastError, inflight, resumedJob>>
  /\ UNCHANGED <<tvars, dvars, cvars, wvars>>

(* The executor's promise rejects with message e. *)
ExecutorRejects ==
  /\ bpc = "executing"
  /\ \E e \in Errors :
       LET j == Iteration(cur) IN
       /\ lastError' = [lastError EXCEPT ![j] = e]
       /\ IF MayRetry(j)
            THEN /\ jobs' = [jobs EXCEPT ![j].status = "pending"]
                 /\ bpc' = "retrydelay"
                 /\ UNCHANGED <<failedCalls, currentJobId>>
            ELSE /\ jobs' = [jobs EXCEPT ![j].status = "failed",
                                         ![j].error = e]
                 /\ failedCalls' = [failedCalls EXCEPT ![j] = @ + 1]
                 /\ currentJobId' = 0
                 /\ bpc' = "after"
  /\ UNCHANGED <<maxRetries, isPaused, isStopped, completedCount, cur, starts,
                 executorCalls, executorOk, progress, inflight, resumedJob>>
  /\ UNCHANGED <<tvars, dvars, cvars, wvars>>

(* delay(this.options.delay * job.attempt) elapses: processJob again. *)
RetryDelayElapses ==
  /\ bpc = "retrydelay"
  /\ bpc' = "entry"
  /\ UNCHANGED <<jobs, maxRetries, isPaused, isStopped, completedCount,
                 currentJobId, cur, starts, executorCalls, executorOk,
                 failedCalls, lastError, progress, inflight, resumedJob>>
  /\ UNCHANGED <<tvars, dvars, cvars, wvars>>

(* Back in start(): delay before the next job unless stopped or last. *)
AfterProcessJob ==
  /\ bpc = "after"
  /\ IF ~isStopped /\ Iteration(cur) # NumJobs
       THEN bpc' = "interdelay" /\ cur' = cur
       ELSE bpc' = "loop" /\ cur' = cur + 1
  /\ UNCHANGED <<jobs, maxRetries, isPaused, isStopped, completedCount,
                 currentJobId, starts, executorCalls, executorOk, failedCalls,
                 lastError, progress, inflight, resumedJob>>
  /\ UNCHANGED <<tvars, dvars, cvars, wvars>>

InterDelayElapses ==
  /\ bpc = "interdelay"
  /\ bpc' = "loop"
  /\ cur' = cur + 1
  /\ UNCHANGED <<jobs, maxRetries, isPaused, isStopped, completedCount,
                 currentJobId, starts, executorCalls, executorOk, failedCalls,
                 lastError, progress, inflight, resumedJob>>
  /\ UNCHANGED <<tvars, dvars, cvars, wvars>>

UserMayAct == bpc \in AwaitPoints \cup {"idle", "done"}

Pause ==
  /\ UserMayAct
  /\ ~isPaused
  /\ isPaused' = TRUE
  /\ UNCHANGED <<jobs, maxRetries, isStopped, completedCount, currentJobId,
                 bpc, cur, starts, executorCalls, executorOk, failedCalls,
                 lastError, progress, inflight, resumedJob>>
  /\ UNCHANGED <<tvars, dvars, cvars, wvars>>

Resume ==
  /\ UserMayAct
  /\ isPaused
  /\ isPaused' = FALSE
  /\ resumedJob' = IF bpc = "paused" THEN Iteration(cur) ELSE 0
  /\ UNCHANGED <<jobs, maxRetries, isStopped, completedCount, currentJobId,
                 bpc, cur, starts, executorCalls, executorOk, failedCalls,
                 lastError, progress, inflight>>
  /\ UNCHANGED <<tvars, dvars, cvars, wvars>>

Stop ==
  /\ UserMayAct
  /\ ~isStopped
  /\ isStopped' = TRUE
  /\ inflight' = IF bpc = "executing" THEN Iteration(cur) ELSE 0
  /\ UNCHANGED <<jobs, maxRetries, isPaused, completedCount, currentJobId,
                 bpc, cur, starts, executorCalls, executorOk, failedCalls,
                 lastError, progress, resumedJob>>
  /\ UNCHANGED <<tvars, dvars, cvars, wvars>>

BatchInit ==
  /\ TransformerIdle
  /\ DownloadIdle(FALSE)
  /\ CollectEntered(<<>>, FALSE, FALSE)
  /\ DiscoverIdle
  /\ \E mr \in 1..MaxRetriesBound : BatchConstructed(mr)

BatchNext ==
  \/ Start
  \/ LoopHead
  \/ Entry
  \/ PausePoll
  \/ ExecutorResolves
  \/ ExecutorRejects
  \/ RetryDelayElapses
  \/ AfterProcessJob
  \/ InterDelayElapses
  \/ Pause
  \/ Resume
  \/ Stop

SpecBatch == BatchInit /\ [][BatchNext]_vars

(* ---------------------------------------------------------------------- *)
(* Claims about the batch manager                                          *)
(* ---------------------------------------------------------------------- *)
Terminal == {"completed", "failed"}

(* An invocation of the executor begins for job j in this step. *)
Begins(j) == executorCalls'[j] > executorCalls[j]

(* C12: within the first start() on freshly constructed jobs, a job whose  *)
(* executor rejects every time is invoked at most maxRetries times; when   *)
(* the run ends unstopped the job is 'failed'; a failed job was invoked    *)
(* exactly maxRetries times, carries the last rejection's message as its   *)
(* error, and onJobFailed was called for it exactly once.                  *)
C12_RetriesThenFailed ==
  starts = 1 =>
    \A j \in JobIds :
      /\ executorOk[j] = 0 => executorCalls[j] <= maxRetries
      /\ failedCalls[j] = (IF jobs[j].status = "failed" THEN 1 ELSE 0)
      /\ jobs[j].status = "failed" =>
           /\ executorOk[j] = 0
           /\ executorCalls[j] = maxRetries
           /\ jobs[j].attempt = maxRetries
           /\ jobs[j].error = lastError[j]
      /\ (bpc = "done" /\ ~isStopped /\ executorOk[j] = 0) =>
           jobs[j].status = "failed"

C12_Witness ==
  /\ starts = 1
  /\ maxRetries >= 2
  /\ \E j \in JobIds :
       /\ jobs[j].status = "failed"
       /\ executorCalls[j] = maxRetries
       /\ jobs[j].error = "E2"
       /\ failedCalls[j] = 1

(* C13: at most one job is 'downloading' at any moment, and the first      *)
(* invocation of the executor for job j begins only when every job of a    *)
(* lower index is 'completed' or 'failed'.                                 *)
C13_Sequential ==
  /\ [](Cardinality({ j \in JobIds : jobs[j].status = "downloading" }) <= 1)
  /\ [][\A j \in JobIds :
          (executorCalls[j] = 0 /\ Begins(j)) =>
            \A i \in 1..(j - 1) : jobs[i].status \in Terminal]_vars

C13_Witness ==
  /\ NumJobs >= 2
  /\ jobs[1].status = "failed"
  /\ jobs[2].status = "downloading"
  /\ executorCalls[2] = 1

(* C14: no invocation of the executor begins while isStopped is set, that  *)
(* is from stop() until the next start(); the invocation in flight at      *)
(* stop() still settles and marks its job.                                 *)
C14_NoInvocationAfterStop ==
  [][(\E j \in JobIds : Begins(j)) => ~isStopped']_vars

C14_Witness ==
  /\ isStopped
  /\ bpc = "done"
  /\ inflight # 0
  /\ jobs[inflight].status = "completed"
  /\ \E j \in JobIds : jobs[j].status = "pending" /\ jobs[j].attempt = 0

C16_ProgressMatchesStatuses ==
  progress # <<>> =>
    /\ progress[1].completed = progress[1].statusCompleted
    /\ progress[1].total = NumJobs

(* ---------------------------------------------------------------------- *)
(* downloadDocument (common/tab-automation.ts)                             *)
(* ---------------------------------------------------------------------- *)
Ok(t) == [success |-> TRUE, error |-> "none", title |-> t]
Fail(e) == [success |-> FALSE, error |-> e, title |-> "none"]

(* return inside the try block. *)
ReturnedInTry(r) == [settle |-> "fulfilled", value |-> r]

(* catch (error) { return { success: false, error: message } } *)
CaughtRethrown(e) == [settle |-> "rejected", value |-> Fail(e)]
Caught(e) == [settle |-> "fulfilled", value |-> Fail(e)]

(* finally { if (tab?.id) ... chrome.tabs.remove(tab.id) } *)
ClosesTabOnSuccess(t, out) == t = "id" /\ out.value.success
ClosesTab(t, out) == t = "id"

(* await chrome.tabs.remove(tab.id).catch(() => {}) *)
AfterRemove(ok, out) == out

(* The try or the catch block returns out with the tab variable holding t: *)
(* the finally block runs, and the promise settles unless a tab is to be   *)
(* closed first.                                                           *)
Leave(t, out) ==
  /\ returned' = <<out>>
  /\ IF ClosesTab(t, out)
       THEN /\ dpc' = "remove"
            /\ removeCalls' = removeCalls + 1
            /\ result' = result
       ELSE /\ dpc' = "settled"
            /\ removeCalls' = removeCalls
            /\ result' = <<out>>

(* A step of the try block rejects or throws with message e. *)
Throw(step, e) ==
  /\ failedStep' = step
  /\ Leave(tab, Caught(e))

DownloadDocument ==
  /\ dpc = "idle"
  /\ dpc' = "create"
  /\ UNCHANGED <<tab, returned, result, removeCalls, timeoutCalls, earlier,
                 ownDownload, search, pageEnd, downloadEnd, failedStep,
                 removeFailed>>
  /\ UNCHANGED <<tvars, bvars, cvars, wvars>>

(* chrome.tabs.create resolves, with a tab that has an id or has none. *)
TabCreated ==
  /\ dpc = "create"
  /\ \E t \in {"id", "noid"} :
       /\ tab' = t
       /\ IF t = "noid"
            THEN /\ failedStep' = "create"
                 /\ Leave(t, ReturnedInTry(Fail("Failed to create tab")))
            ELSE /\ dpc' = "load"
                 /\ UNCHANGED <<failedStep, returned, result, removeCalls>>
  /\ UNCHANGED <<timeoutCalls, earlier, ownDownload, search, pageEnd,
                 downloadEnd, removeFailed>>
  /\ UNCHANGED <<tvars, bvars, cvars, wvars>>

CreateRejects ==
  /\ dpc = "create"
  /\ Throw("create", "Tabs cannot be created")
  /\ UNCHANGED <<tab, timeoutCalls, earlier, ownDownload, search, pageEnd,
                 downloadEnd, removeFailed>>
  /\ UNCHANGED <<tvars, bvars, cvars, wvars>>

(* waitForPageLoad: onUpdated reports 'complete' for this tab, or          *)
(* chrome.tabs.get finds it complete already.                              *)
PageLoads ==
  /\ dpc = "load"
  /\ pageEnd' = "complete"
  /\ dpc' = "flag"
  /\ UNCHANGED <<tab, returned, result, removeCalls, timeoutCalls, earlier,
                 ownDownload, search, downloadEnd, failedStep, removeFailed>>
  /\ UNCHANGED <<tvars, bvars, cvars, wvars>>

(* waitForPageLoad: chrome.tabs.get rejects. *)
TabsGetRejects ==
  /\ dpc = "load"
  /\ pageEnd' = "getRejected"
  /\ Throw("page", "No tab with id")
  /\ UNCHANGED <<tab, timeoutCalls, earlier, ownDownload, search, downloadEnd,
                 removeFailed>>
  /\ UNCHANGED <<tvars, bvars, cvars, wvars>>

(* waitForPageLoad: the timer fires first. *)
PageLoadTimeout ==
  /\ dpc = "load"
  /\ pageEnd' = "timeout"
  /\ timeoutCalls' = [timeoutCalls EXCEPT !.page = @ + 1]
  /\ Throw("page", "Page load timeout")
  /\ UNCHANGED <<tab, earlier, ownDownload, search, downloadEnd, removeFailed>>
  /\ UNCHANGED <<tvars, bvars, cvars, wvars>>

(* executeScript setting __AUTOMATION_MODE__ resolves or rejects. *)
FlagScript ==
  /\ dpc = "flag"
  /\ \/ /\ dpc' = "inject"
        /\ UNCHANGED <<returned, result, removeCalls, failedStep>>
     \/ Throw("flag", "Cannot access contents of the page")
  /\ UNCHANGED <<tab, timeoutCalls, earlier, ownDownload, search, pageEnd,
                 downloadEnd, removeFailed>>
  /\ UNCHANGED <<tvars, bvars, cvars, wvars>>

(* executeScript of the download script resolves: by the time the wait     *)
(* attaches its listener the script has started no download, one that is   *)
(* in progress, or one that is complete already.                           *)
DownloadScript ==
  /\ dpc = "inject"
  /\ \/ /\ \E o \in {"none", "in_progress", "complete"} : ownDownload' = o
        /\ dpc' = "wait"
        /\ search' = "pending"
        /\ UNCHANGED <<returned, result, removeCalls, failedStep>>
     \/ /\ Throw("inject", "Cannot access contents of the page")
        /\ UNCHANGED <<ownDownload, search>>
  /\ UNCHANGED <<tab, timeoutCalls, earlier, pageEnd, downloadEnd,
                 removeFailed>>
  /\ UNCHANGED <<tvars, bvars, cvars, wvars>>

(* waitForDownloadComplete: onChanged reports state 'complete' for the     *)
(* script's download or for any other download of the browser.             *)
DownloadCompletes ==
  /\ dpc = "wait"
  /\ \/ /\ ownDownload = "in_progress"
        /\ ownDownload' = "complete"
        /\ downloadEnd' = "own"
     \/ /\ downloadEnd' = "other"
        /\ UNCHANGED ownDownload
  /\ dpc' = "title"
  /\ UNCHANGED <<tab, returned, result, removeCalls, timeoutCalls, earlier,
                 search, pageEnd, failedStep, removeFailed>>
  /\ UNCHANGED <<tvars, bvars, cvars, wvars>>

(* waitForDownloadComplete: onChanged reports an error. *)
DownloadFails ==
  /\ dpc = "wait"
  /\ \/ /\ ownDownload = "in_progress"
        /\ ownDownload' = "interrupted"
        /\ downloadEnd' = "error"
     \/ /\ downloadEnd' = "otherError"
        /\ UNCHANGED ownDownload
  /\ Throw("download", "Download error")
  /\ UNCHANGED <<tab, timeoutCalls, earlier, search, pageEnd, removeFailed>>
  /\ UNCHANGED <<tvars, bvars, cvars, wvars>>

(* The most recent download chrome.downloads.search returns. *)
MostRecent ==
  IF ownDownload # "none" THEN [of |-> "own", state |-> ownDownload]
  ELSE IF earlier THEN [of |-> "earlier", state |-> "complete"]
  ELSE [of |-> "none", state |-> "none"]

(* search(...).then: arm the 500 ms timer if the most recent download is   *)
(* complete.                                                               *)
SearchResolves ==
  /\ dpc = "wait"
  /\ search = "pending"
  /\ search' = IF MostRecent.state = "complete" THEN MostRecent.of ELSE "off"
  /\ UNCHANGED <<dpc, tab, returned, result, removeCalls, timeoutCalls,
                 earlier, ownDownload, pageEnd, downloadEnd, failedStep,
                 removeFailed>>
  /\ UNCHANGED <<tvars, bvars, cvars, wvars>>

(* The 500 ms timer fires with the wait still open. *)
SearchTimerFires ==
  /\ dpc = "wait"
  /\ search \in {"own", "earlier"}
  /\ downloadEnd' = search
  /\ search' = "off"
  /\ dpc' = "title"
  /\ UNCHANGED <<tab, returned, result, removeCalls, timeoutCalls, earlier,
                 ownDownload, pageEnd, failedStep, removeFailed>>
  /\ UNCHANGED <<tvars, bvars, cvars, wvars>>

(* The timeout timer fires with the wait still open; the search and its    *)
(* 500 ms timer are over long before the 60 s of the timeout.              *)
DownloadTimeout ==
  /\ dpc = "wait"
  /\ search = "off"
  /\ downloadEnd' = "timeout"
  /\ timeoutCalls' = [timeoutCalls EXCEPT !.download = @ + 1]
  /\ Throw("download", "Download timeout")
  /\ UNCHANGED <<tab, earlier, ownDownload, search, pageEnd, removeFailed>>
  /\ UNCHANGED <<tvars, bvars, cvars, wvars>>

(* executeScript(getPageTitle) resolves or rejects. *)
TitleQuery ==
  /\ dpc = "title"
  /\ \/ /\ \E t \in {"Title", "undefined"} : Leave(tab, ReturnedInTry(Ok(t)))
        /\ UNCHANGED failedStep
     \/ Throw("title", "Cannot access contents of the page")
  /\ UNCHANGED <<tab, timeoutCalls, earlier, ownDownload, search, pageEnd,
                 downloadEnd, removeFailed>>
  /\ UNCHANGED <<tvars, bvars, cvars, wvars>>

(* chrome.tabs.remove settles, resolved or rejected. *)
TabRemoved ==
  /\ dpc = "remove"
  /\ \E ok \in BOOLEAN :
       /\ removeFailed' = ~ok
       /\ result' = <<AfterRemove(ok, returned[1])>>
  /\ dpc' = "settled"
  /\ UNCHANGED <<tab, returned, removeCalls, timeoutCalls, earlier,
                 ownDownload, search, pageEnd, downloadEnd, failedStep>>
  /\ UNCHANGED <<tvars, bvars, cvars, wvars>>

DownloadInit ==
  /\ TransformerIdle
  /\ BatchConstructed(MaxRetriesBound)
  /\ \E e \in BOOLEAN : DownloadIdle(e)
  /\ CollectEntered(<<>>, FALSE, FALSE)
  /\ DiscoverIdle

DownloadNext ==
  \/ DownloadDocument
  \/ TabCreated
  \/ CreateRejects
  \/ PageLoads
  \/ TabsGetRejects
  \/ PageLoadTimeout
  \/ FlagScript
  \/ DownloadScript
  \/ DownloadCompletes
  \/ DownloadFails
  \/ SearchResolves
  \/ SearchTimerFires
  \/ DownloadTimeout
  \/ TitleQuery
  \/ TabRemoved

SpecDownload == DownloadInit /\ [][DownloadNext]_vars

(* ---------------------------------------------------------------------- *)
(* Claims about downloadDocument                                           *)
(* ---------------------------------------------------------------------- *)
Settled == result # <<>>

(* C11: whenever chrome.tabs.create returned a tab with an id,             *)
(* chrome.tabs.remove has been called for it, once, by the time the        *)
(* promise settles, on the success path and on every failure path, and the *)
(* promise settles with what the try or catch block returned whether the   *)
(* remove resolved or rejected.                                            *)
C11_TabClosedBeforeSettle ==
  /\ removeCalls <= 1
  /\ removeCalls = 1 => tab = "id"
  /\ (Settled /\ tab = "id") =>
       /\ removeCalls = 1
       /\ result = returned

C11_Witness ==
  /\ Settled
  /\ tab = "id"
  /\ removeCalls = 1
  /\ removeFailed
  /\ failedStep = "download"
  /\ result[1].value.error = "Download timeout"

(* C17: downloadDocument returns success:true only if the download started *)
(* by the script injected into its own tab reached 'complete'.             *)
C17_SuccessOnlyByOwnDownload ==
  (Settled /\ result[1].value.success) =>
    /\ ownDownload = "complete"
    /\ downloadEnd = "own"

(* C18: if, after the injection, no download reached 'complete' and none   *)
(* reported an error, onDownloadTimeout was called exactly once and the    *)
(* result is success:false with 'Download timeout'; if the page-load wait  *)
(* ran out, onPageLoadTimeout was called exactly once and the result is    *)
(* success:false with 'Page load timeout'.                                 *)
C18_TimeoutsReported ==
  Settled =>
    /\ ( /\ downloadEnd # "none"
         /\ ownDownload # "complete"
         /\ downloadEnd \notin {"own", "other", "error", "otherError"} ) =>
           /\ timeoutCalls.download = 1
           /\ result[1].value = Fail("Download timeout")
    /\ pageEnd = "timeout" =>
           /\ timeoutCalls.page = 1
           /\ result[1].value = Fail("Page load timeout")

(* C19: the promise of downloadDocument is never rejected; a failure of    *)
(* any step is returned as success:false with the step's message, and      *)
(* success:true is returned only when no step failed.                      *)
StepMessages ==
  [create |-> {"Failed to create tab", "Tabs cannot be created"},
   page |-> {"No tab with id", "Page load timeout"},
   flag |-> {"Cannot access contents of the page"},
   inject |-> {"Cannot access contents of the page"},
   download |-> {"Download error", "Download timeout"},
   title |-> {"Cannot access contents of the page"}]

C19_NeverRejects ==
  Settled =>
    /\ result[1].settle = "fulfilled"
    /\ result[1].value.success <=> failedStep = "none"
    /\ failedStep # "none" =>
         result[1].value.error \in StepMessages[failedStep]
    /\ result[1].value.success =>
         /\ tab = "id"
         /\ pageEnd = "complete"
         /\ downloadEnd \in {"own", "other", "earlier"}
         /\ result[1].value.error = "none"

C19_Witness ==
  /\ Settled
  /\ failedStep = "title"
  /\ result[1].settle = "fulfilled"
  /\ ~result[1].value.success
  /\ result[1].value.error = "Cannot access contents of the page"

(* ---------------------------------------------------------------------- *)
(* startBatchDownload (pages/automation/automation-logic.ts): collecting   *)
(* the URLs                                                                *)
(* ---------------------------------------------------------------------- *)
MaxInputs == 2

(* Input URLs: a wiki page, the same page with a fragment, a document. *)
InputUrls == {"wiki/A", "wiki/A#top", "docx/B"}

(* isWikiPage(url): the path matches a wiki pattern. *)
isWikiPage(u) == u \in {"wiki/A", "wiki/A#top"}

(* new URL(url) with hash = '': the href without its fragment. *)
Normalize(u) == IF u = "wiki/A#top" THEN "wiki/A" ELSE u

(* What a discovery of input u can resolve with: nothing, the page alone,  *)
(* or the page followed by sub-pages.                                      *)
DiscoveryResults(u) ==
  { <<>>,
    <<Normalize(u)>>,
    <<Normalize(u), "wiki/A1">>,
    <<Normalize(u), "wiki/A1", "wiki/A2">> }

(* allUrls.add(u) for each u of us, in order: a Set keeps first insertions. *)
RECURSIVE AddAll(_, _)
AddAll(set, us) ==
  IF us = <<>> THEN set
  ELSE AddAll(IF Head(us) \in Range(set) THEN set ELSE Append(set, Head(us)),
              Tail(us))

(* The pages queued from a resolved discovery. *)
QueuedAlways(wikiUrls, inc) == wikiUrls
Queued(wikiUrls, inc) ==
  IF inc THEN wikiUrls
  ELSE IF Len(wikiUrls) > 1 THEN Tail(wikiUrls) ELSE <<>>

(* catch: allUrls.add(inputUrl) *)
FallbackIfIncluded(u, inc) == IF inc THEN <<u>> ELSE <<>>
Fallback(u, inc) == <<u>>

(* One pass of the loop body up to its await or its end. *)
ProcessInput ==
  /\ cpc = "loop"
  /\ idx <= Len(urls)
  /\ IF isWikiPage(urls[idx]) /\ recursiveWiki
       THEN /\ cpc' = "discovering"
            /\ UNCHANGED <<idx, allUrls>>
       ELSE /\ allUrls' = AddAll(allUrls, <<urls[idx]>>)
            /\ idx' = idx + 1
            /\ cpc' = "loop"
  /\ UNCHANGED <<urls, recursiveWiki, includeMainPage, clog, rejectedAt,
                 managerUrls, discovered>>
  /\ UNCHANGED <<tvars, bvars, dvars, wvars>>

(* discoverWikiRecursively resolves. *)
DiscoveryResolves ==
  /\ cpc = "discovering"
  /\ \E wikiUrls \in DiscoveryResults(urls[idx]) :
       /\ allUrls' = AddAll(allUrls, Queued(wikiUrls, includeMainPage))
       /\ discovered' = <<idx, wikiUrls>>
  /\ idx' = idx + 1
  /\ cpc' = "loop"
  /\ UNCHANGED <<urls, recursiveWiki, includeMainPage, clog, rejectedAt,
                 managerUrls>>
  /\ UNCHANGED <<tvars, bvars, dvars, wvars>>

(* discoverWikiRecursively rejects. *)
DiscoveryRejects ==
  /\ cpc = "discovering"
  /\ clog' = clog \cup { <<"error", "Failed to discover wiki pages", idx>>,
                         <<"info", "Adding original URL as fallback", idx>> }
  /\ allUrls' = AddAll(allUrls, Fallback(urls[idx], includeMainPage))
  /\ rejectedAt' = rejectedAt \cup {idx}
  /\ idx' = idx + 1
  /\ cpc' = "loop"
  /\ UNCHANGED <<urls, recursiveWiki, includeMainPage, managerUrls,
                 discovered>>
  /\ UNCHANGED <<tvars, bvars, dvars, wvars>>

(* After the loop: return if nothing was collected, else new BatchManager. *)
LoopEnds ==
  /\ cpc = "loop"
  /\ idx > Len(urls)
  /\ IF Len(allUrls) = 0
       THEN /\ cpc' = "empty"
            /\ clog' = clog \cup { <<"error", "No URLs to download!", 0>> }
            /\ UNCHANGED managerUrls
       ELSE /\ cpc' = "batch"
            /\ managerUrls' = allUrls
            /\ UNCHANGED clog
  /\ UNCHANGED <<urls, recursiveWiki, includeMainPage, idx, allUrls,
                 rejectedAt, discovered>>
  /\ UNCHANGED <<tvars, bvars, dvars, wvars>>

InputLists ==
  UNION { [1..n -> InputUrls] : n \in 1..MaxInputs }

CollectInit ==
  /\ TransformerIdle
  /\ BatchConstructed(MaxRetriesBound)
  /\ DownloadIdle(FALSE)
  /\ DiscoverIdle
  /\ \E us \in InputLists, rw \in BOOLEAN, inc \in BOOLEAN :
       CollectEntered(us, rw, inc)

CollectNext ==
  \/ ProcessInput
  \/ DiscoveryResolves
  \/ DiscoveryRejects
  \/ LoopEnds

SpecCollect == CollectInit /\ [][CollectNext]_vars

(* C20: an input whose discovery rejected has its original URL in the      *)
(* download set whatever includeMainPage is, and an error logged for it;   *)
(* the loop goes on to the end of the inputs, every input after it that is *)
(* not expanded is in the set, and the batch manager is created with the   *)
(* set.                                                                    *)
C20_DiscoveryFailureFallsBack ==
  /\ \A i \in rejectedAt :
       /\ urls[i] \in Range(allUrls)
       /\ <<"error", "Failed to discover wiki pages", i>> \in clog
       /\ cpc # "empty"
  /\ (rejectedAt # {} /\ cpc # "loop" /\ cpc # "discovering") =>
       /\ cpc = "batch"
       /\ idx = Len(urls) + 1
       /\ managerUrls = allUrls
       /\ \A j \in 1..Len(urls) :
            (j \in rejectedAt \/ ~(isWikiPage(urls[j]) /\ recursiveWiki)) =>
              urls[j] \in Range(managerUrls)

C20_Witness ==
  /\ cpc = "batch"
  /\ ~includeMainPage
  /\ Len(urls) >= 2
  /\ 1 \in rejectedAt
  /\ urls[1] = "wiki/A#top"
  /\ urls[2] = "docx/B"
  /\ managerUrls = <<"wiki/A#top", "docx/B">>

(* A discovery resolved in this step. *)
Resolved == cpc = "discovering" /\ cpc' = "loop" /\ discovered' # discovered

(* The URLs of a list from position k on. *)
From(list, k) == { list[i] : i \in k..Len(list) }

(* C21: when the discovery of a wiki input resolves, the URLs it adds to   *)
(* the download set are, with includeMainPage false, exactly the           *)
(* discovered pages after the first (the main page is not added, and       *)
(* nothing is added when only the main page was found) and, with           *)
(* includeMainPage true, all discovered pages; what was in the set stays   *)
(* in its place.                                                           *)
C21_MainPageOption ==
  [][Resolved =>
       LET list == discovered'[2]
           main == Normalize(urls[idx])
           new == Range(allUrls') \ Range(allUrls) IN
       /\ discovered'[1] = idx
       /\ SubSeq(allUrls', 1, Len(allUrls)) = allUrls
       /\ includeMainPage => new = From(list, 1) \ Range(allUrls)
       /\ ~includeMainPage =>
            /\ new = From(list, 2) \ Range(allUrls)
            /\ main \notin new
            /\ Len(list) <= 1 => allUrls' = allUrls]_vars

C21_Witness ==
  /\ ~includeMainPage
  /\ discovered = <<2, <<"wiki/A", "wiki/A1", "wiki/A2">> >>
  /\ allUrls = <<"docx/B", "wiki/A1", "wiki/A2">>

(* ---------------------------------------------------------------------- *)
(* discoverWikiRecursively (common/wiki-detector.ts)                       *)
(* ---------------------------------------------------------------------- *)
MaxDepthBound == 2

(* options.maxDepth as the caller passes it. *)
DepthOptions == -1..MaxDepthBound

(* maxDepth === -1 ? Infinity : maxDepth *)
Limit(m) ==
  IF m = -1 THEN [finite |-> FALSE, n |-> 0] ELSE [finite |-> TRUE, n |-> m]

(* currentDepth >= maxDepth *)
AtLimit(depth, lim) == lim.finite /\ depth >= lim.n

(* What the discovery script of a page can return. *)
LinkLists ==
  { <<>>,
    <<"wiki/A1">>,
    <<"wiki/A1", "wiki/A2">>,
    <<"wiki/A#top", "wiki/A2">>,
    <<"wiki/A", "wiki/A1">> }

(* discoverWikiRecursively(url, maxDepth, currentDepth, visited): the list *)
(* it resolves with and the visited set as it leaves it.                   *)
RECURSIVE discoverWikiRecursively(_, _, _, _)
RECURSIVE DiscoverEach(_, _, _, _, _)
discoverWikiRecursively(url, lim, depth, visited) ==
  LET normalizedUrl == Normalize(url) IN
  IF AtLimit(depth, lim) \/ normalizedUrl \in visited
    THEN [list |-> <<>>, visited |-> visited]
    ELSE LET seenNow == visited \cup {normalizedUrl}
             newSubPages ==
               SelectSeq(links[normalizedUrl], LAMBDA u : u \notin seenNow)
             r == DiscoverEach(newSubPages, lim, depth + 1,
                               <<normalizedUrl>>, seenNow)
         IN [list |-> AddAll(<<>>, r.list), visited |-> r.visited]

(* for (const subPage of newSubPages) allUrls.push(...nested) *)
DiscoverEach(subPages, lim, depth, acc, visited) ==
  IF subPages = <<>> THEN [list |-> acc, visited |-> visited]
  ELSE LET nested ==
             discoverWikiRecursively(Head(subPages), lim, depth, visited)
       IN DiscoverEach(Tail(subPages), lim, depth, acc \o nested.list,
                       nested.visited)

(* The call of startBatchDownload: depth 0, new Set(). *)
TopLevel == discoverWikiRecursively(wurl, Limit(wmaxDepth), 0, {})

(* The top-level call resolves. *)
DiscoveryReturns ==
  /\ wpc = "called"
  /\ wresult' = TopLevel.list
  /\ wpc' = "resolved"
  /\ UNCHANGED <<wurl, wmaxDepth, links>>
  /\ UNCHANGED <<tvars, bvars, dvars, cvars>>

(* A tab, a page load or a script of a page it visits fails: it rejects. *)
DiscoveryThrows ==
  /\ wpc = "called"
  /\ ~AtLimit(0, Limit(wmaxDepth))
  /\ wpc' = "rejected"
  /\ UNCHANGED <<wurl, wmaxDepth, links, wresult>>
  /\ UNCHANGED <<tvars, bvars, dvars, cvars>>

DiscoverInit ==
  /\ TransformerIdle
  /\ BatchConstructed(MaxRetriesBound)
  /\ DownloadIdle(FALSE)
  /\ CollectEntered(<<>>, FALSE, FALSE)
  /\ wurl \in {"wiki/A", "wiki/A#top"}
  /\ wmaxDepth \in DepthOptions
  /\ links \in [Pages -> LinkLists]
  /\ wpc = "called"
  /\ wresult = <<>>

DiscoverNext == DiscoveryReturns \/ DiscoveryThrows

SpecDiscover == DiscoverInit /\ [][DiscoverNext]_vars

(* C22: the list a top-level discoverWikiRecursively call resolves with    *)
(* has a first element, and it is the main page: the input URL without its *)
(* fragment, for every maxDepth passed.                                    *)
C22_FirstIsMainPage ==
  wpc = "resolved" =>
    /\ Len(wresult) >= 1
    /\ wresult[1] = Normalize(wurl)

====
